---------------------------- MODULE Spec2Model ----------------------------
(***************************************************************************)
(* Model of the PlatformIO pre-build hooks of sol-evc-firmware:            *)
(*   tools/web_build.py     build_and_prepare_web_ui  (build, stage, gzip) *)
(*   tools/build_web_ui.py  build_and_copy_web_ui     (build, stage)       *)
(* The state is the part of the project directory the hooks read and       *)
(* write (web-ui/, web-ui/dist, data/www, the files of data/), the wall    *)
(* clock gzip stamps into its header, and the position of the running hook.*)
(***************************************************************************)
EXTENDS Integers, Sequences, FiniteSets, TLC

(***************************************************************************)
(* Bounds of the model.                                                    *)
(***************************************************************************)
MaxRuns == 2     \* hook invocations in one behaviour
MaxClock == 1    \* seconds the wall clock may advance

(***************************************************************************)
(* File names are character sequences, so that str.endswith and the        *)
(* concatenation filename + '.gz' are computed as Python computes them.    *)
(***************************************************************************)
INDEX_HTML == <<"i","n","d","e","x",".","h","t","m","l">>
APP_JS == <<"a","p","p",".","j","s">>
APP_JS_UPPER == <<"a","p","p",".","J","S">>
LOGO_PNG == <<"l","o","g","o",".","p","n","g">>
STYLE_CSS == <<"s","t","y","l","e",".","c","s","s">>
STALE_TXT == <<"s","t","a","l","e",".","t","x","t">>

\* File contents are byte sequences; os.path.getsize is their length.
Markup == <<1>>
Script == <<2>>
Other == <<3>>
Empty == <<>>

\* A path below a tree root is <<sub-directory, file name>>; "" is the root.
Path(dir, name) == <<dir, name>>
DirOf(p) == p[1]
NameOf(p) == p[2]

MkTree(files) == [exists |-> TRUE, files |-> files]
NoFiles == [p \in {} |-> Empty]
NoDir == [exists |-> FALSE, files |-> NoFiles]

\* Trees `npm run build` may leave in web-ui/dist.
SiteTree ==
    MkTree((Path("", INDEX_HTML) :> Markup) @@ (Path("", APP_JS) :> Script)
           @@ (Path("", LOGO_PNG) :> Other))
SmallTree ==
    MkTree((Path("", INDEX_HTML) :> Markup) @@ (Path("", APP_JS_UPPER) :> Script))
NestedTree ==
    MkTree((Path("a", APP_JS) :> Markup) @@ (Path("b", APP_JS) :> Script))
EmptyFileTree == MkTree(Path("", STYLE_CSS) :> Empty)
SourceTrees == {SiteTree, SmallTree, NestedTree, EmptyFileTree}

\* What data/www may hold before the first run.
LeftoverTree ==
    MkTree((Path("", STALE_TXT) :> Other) @@ (Path("", INDEX_HTML) :> Script))

VARIABLES
    webui,            \* os.path.exists(web_ui_dir)
    dist,             \* web-ui/dist
    www,              \* data/www
    out,              \* the regular files of data/ (file name -> gzip member)
    clock,            \* time.time() in whole seconds
    pc,               \* position of the running hook, "idle" between runs
    fn,               \* which hook runs: "prepare" or "copy"
    todo,             \* files os.walk has still to yield
    curdir,           \* directory os.walk is in
    file_count,       \* web_build.py:60
    compressed_files, \* web_build.py:61
    outcome,          \* how the last run ended
    runs,             \* runs started
    www0, out0,       \* data/www and data/ when the run started
    staged,           \* the copy to data/www was carried out in this run
    noSource,         \* the run found web-ui or web-ui/dist missing
    written,          \* <<artifact name, staged path>> written in this run
    prev              \* project state at the end of the previous run

vars == <<webui, dist, www, out, clock, pc, fn, todo, curdir, file_count,
          compressed_files, outcome, runs, www0, out0, staged, noSource,
          written, prev>>

fsVars == <<webui, dist, www, out>>
loopVars == <<todo, curdir, file_count, compressed_files, written>>
ghostVars == <<www0, out0, prev, runs>>


(***************************************************************************)
(* Pure helpers, as the standard library computes them.                    *)
(***************************************************************************)
\* str.endswith(suffix): exact, case-sensitive comparison of the tail.
endswith(name, suffix) ==
    /\ Len(name) >= Len(suffix)
    /\ SubSeq(name, Len(name) - Len(suffix) + 1, Len(name)) = suffix

\* The same comparison after folding "J" and "S" to lower case.
Lower(ch) == IF ch = "J" THEN "j" ELSE IF ch = "S" THEN "s" ELSE ch
endswith_nocase(name, suffix) ==
    endswith([i \in 1..Len(name) |-> Lower(name[i])], suffix)

\* The suffix tuple of web_build.py:65.
Suffixes ==
    { <<".","h","t","m","l">>, <<".","c","s","s">>, <<".","j","s">>,
      <<".","j","s","o","n">> }

IsEligible_nocase(filename) ==
    \E sfx \in Suffixes : endswith_nocase(filename, sfx)

\* filename.endswith(('.html', '.css', '.js', '.json'))
IsEligible(filename) == \E sfx \in Suffixes : endswith(filename, sfx)

\* dst_filename = filename + '.gz'
DstFilename(filename) == filename \o <<".","g","z">>

\* os.path.getsize of a file with the given content.
getsize(content) == Len(content)

(***************************************************************************)
(* gzip.open(dst_path, 'wb', compresslevel=9) followed by copyfileobj: a   *)
(* gzip member holds a header with the original file name and the time of  *)
(* writing (GzipFile is given no mtime, so it takes time.time()), and the  *)
(* deflate stream of the payload, which is a function of the payload and   *)
(* the level alone.                                                        *)
(***************************************************************************)
GzipMember(filename, content, now) ==
    [fname |-> filename, mtime |-> now, level |-> 9, payload |-> content,
     complete |-> TRUE]

\* What is on disk when the write stops part-way: the header, no payload.
TruncatedMember(filename, now) ==
    [fname |-> filename, mtime |-> now, level |-> 9, payload |-> Empty,
     complete |-> FALSE]

\* open(path, 'wb'): creates the file or replaces what was there.
WriteFile(dir, name, data) ==
    [n \in (DOMAIN dir) \cup {name} |-> IF n = name THEN data ELSE dir[n]]

(***************************************************************************)
(* Directory operations of shutil and os.                                  *)
(***************************************************************************)
\* shutil.rmtree(d)
rmtree(d) == NoDir

\* os.makedirs(d, exist_ok=True)
makedirs(d) == IF d.exists THEN d ELSE MkTree(NoFiles)

\* shutil.copytree(src, dst): a full mirror of src at dst; when dst exists
\* it raises FileExistsError before copying anything.
copytree(src, dst) == IF dst.exists THEN dst ELSE MkTree(src.files)

\* shutil.copytree(src, dst, dirs_exist_ok=True): copies onto what is there.
copytree_onto(src, dst) ==
    MkTree([p \in (DOMAIN dst.files) \cup (DOMAIN src.files) |->
              IF p \in DOMAIN src.files THEN src.files[p] ELSE dst.files[p]])

\* A copy that stopped before its last file: any strict part of the source.
PartialCopies(src) ==
    { MkTree([p \in S |-> src.files[p]]) :
        S \in (SUBSET (DOMAIN src.files)) \ {DOMAIN src.files} }

\* Staging that copies onto the old tree instead of replacing it.
PrepareStaging_KeepOld(d, w) == IF d.exists THEN copytree_onto(d, w) ELSE w

\* Staging that does not look whether dist exists.
PrepareStaging_Unchecked(d, w) == copytree(d, rmtree(w))

\* web_build.py:45-49: when dist exists, remove data/www if it exists and
\* copy dist to it; otherwise leave data/www alone.
PrepareStaging(d, w) ==
    IF d.exists
    THEN LET cleared == IF w.exists THEN rmtree(w) ELSE w
         IN  copytree(d, cleared)
    ELSE w

\* build_web_ui.py:43-55: when dist exists, create data/www, remove it and
\* copy dist to it; otherwise leave data/www alone.
CopyStaging(d, w) ==
    IF d.exists
    THEN LET made == makedirs(w)
             cleared == IF made.exists THEN rmtree(made) ELSE made
         IN  copytree(d, cleared)
    ELSE w

\* The files os.walk(data_www_dir) yields: every file at every depth.
WalkFiles_TopOnly(tree) == { p \in DOMAIN tree.files : DirOf(p) = "" }

WalkFiles(tree) == DOMAIN tree.files

\* os.walk is top-down: the files of the root first, then one sub-directory
\* after the other; the order within a directory and among sub-directories
\* is the order of os.scandir, which is not specified.
WalkNext(left, cur) ==
    IF \E q \in left : DirOf(q) = "" THEN { q \in left : DirOf(q) = "" }
    ELSE IF \E q \in left : DirOf(q) = cur THEN { q \in left : DirOf(q) = cur }
    ELSE left

(***************************************************************************)
(* Initial state: a project checkout before the first build. web-ui/ may   *)
(* be missing, data/www may hold hand-placed files or be missing, and      *)
(* data/ holds no artifact yet.                                            *)
(***************************************************************************)
NoPrev == [valid |-> FALSE, dist |-> NoDir, www |-> NoDir, out |-> NoFiles]

Init ==
    /\ webui \in BOOLEAN
    /\ dist = NoDir
    /\ www \in {NoDir, LeftoverTree}
    /\ out = NoFiles
    /\ clock = 0
    /\ pc = "idle"
    /\ fn = "none"
    /\ todo = {}
    /\ curdir = ""
    /\ file_count = 0
    /\ compressed_files = <<>>
    /\ outcome = "none"
    /\ runs = 0
    /\ www0 = www
    /\ out0 = out
    /\ staged = FALSE
    /\ noSource = FALSE
    /\ written = {}
    /\ prev = NoPrev

\* Bookkeeping at the start of a run: what the trees were, and how the
\* previous run left the project when it ran to its end.
StartRun(f) ==
    /\ pc = "idle"
    /\ runs < MaxRuns
    /\ runs' = runs + 1
    /\ fn' = f
    /\ www0' = www
    /\ out0' = out
    /\ staged' = FALSE
    /\ noSource' = ~webui
    /\ written' = {}
    /\ prev' = IF outcome = "ok"
               THEN [valid |-> TRUE, dist |-> dist, www |-> www, out |-> out]
               ELSE NoPrev
    /\ todo' = {}
    /\ curdir' = ""
    /\ file_count' = 0
    /\ compressed_files' = <<>>

\* The wall clock advances, between builds and during one.
Tick ==
    /\ clock < MaxClock
    /\ clock' = clock + 1
    /\ UNCHANGED <<fsVars, pc, fn, loopVars, outcome, ghostVars, staged,
                   noSource>>

(***************************************************************************)
(* build_and_prepare_web_ui, web_build.py:17-99.                           *)
(***************************************************************************)
\* web_build.py:29, 51-52: build only when web-ui/ exists.
PrepareBegin ==
    /\ StartRun("prepare")
    /\ pc' = IF webui THEN "hook" ELSE "step2"
    /\ outcome' = "running"
    /\ UNCHANGED <<fsVars, clock>>

\* build_and_copy_web_ui, build_web_ui.py:23-25: return when web-ui/ is missing.
CopyBegin ==
    /\ StartRun("copy")
    /\ pc' = IF webui THEN "hook" ELSE "idle"
    /\ outcome' = IF webui THEN "running" ELSE "no_webui"
    /\ UNCHANGED <<fsVars, clock>>

\* Where the hook goes after `except subprocess.CalledProcessError`: return.
AfterBuildError_Continue == "stage"

AfterBuildError == "idle"

\* subprocess.run(["npm", "run", "build"], check=True) returns: the build
\* left some tree, or none, in web-ui/dist.
HookSucceeds ==
    /\ pc = "hook"
    /\ dist' \in SourceTrees \cup {NoDir}
    /\ pc' = "stage"
    /\ UNCHANGED <<webui, www, out, clock, fn, loopVars, outcome, ghostVars,
                   staged, noSource>>

\* npm exits non-zero: CalledProcessError, caught, the hook returns.
HookFails ==
    /\ pc = "hook"
    /\ pc' = AfterBuildError
    /\ outcome' = "build_error"
    /\ UNCHANGED <<fsVars, clock, fn, loopVars, ghostVars, staged, noSource>>

\* npm cannot be started: subprocess.run raises FileNotFoundError, which
\* `except subprocess.CalledProcessError` does not catch.
HookCannotStart ==
    /\ pc = "hook"
    /\ pc' = "idle"
    /\ outcome' = "FileNotFoundError"
    /\ UNCHANGED <<fsVars, clock, fn, loopVars, ghostVars, staged, noSource>>

\* web_build.py:44-50: stage web-ui/dist into data/www when dist exists.
PrepareStage ==
    /\ pc = "stage"
    /\ fn = "prepare"
    /\ www' = PrepareStaging(dist, www)
    /\ staged' = dist.exists
    /\ noSource' = ~dist.exists
    /\ pc' = "step2"
    /\ UNCHANGED <<webui, dist, out, clock, fn, loopVars, outcome, ghostVars>>

\* shutil.copytree fails part-way (the source vanishes, the disk is full):
\* an OSError / shutil.Error that nothing in the hook catches.
PrepareStageFails ==
    /\ pc = "stage"
    /\ fn = "prepare"
    /\ dist.exists
    /\ www' \in PartialCopies(dist)
    /\ pc' = "idle"
    /\ outcome' = "CopyError"
    /\ UNCHANGED <<webui, dist, out, clock, fn, loopVars, ghostVars, staged,
                   noSource>>

\* build_web_ui.py:42-68: stage web-ui/dist into data/www, list it, return.
CopyStage ==
    /\ pc = "stage"
    /\ fn = "copy"
    /\ www' = CopyStaging(dist, www)
    /\ staged' = dist.exists
    /\ noSource' = ~dist.exists
    /\ outcome' = IF dist.exists THEN "copied" ELSE "no_dist"
    /\ pc' = "idle"
    /\ UNCHANGED <<webui, dist, out, clock, fn, loopVars, ghostVars>>

\* The same failure of shutil.copytree in build_web_ui.py:55.
CopyStageFails ==
    /\ pc = "stage"
    /\ fn = "copy"
    /\ dist.exists
    /\ www' \in PartialCopies(dist)
    /\ pc' = "idle"
    /\ outcome' = "CopyError"
    /\ UNCHANGED <<webui, dist, out, clock, fn, loopVars, ghostVars, staged,
                   noSource>>

\* web_build.py:54-63: return when data/www is missing, else start the walk.
PrepareStep2 ==
    /\ pc = "step2"
    /\ IF ~www.exists
       THEN /\ pc' = "idle"
            /\ outcome' = "no_www"
            /\ todo' = todo
       ELSE /\ pc' = "loop"
            /\ outcome' = outcome
            /\ todo' = WalkFiles(www)
    /\ curdir' = ""
    /\ UNCHANGED <<fsVars, clock, fn, file_count, compressed_files, written,
                   ghostVars, staged, noSource>>

\* web_build.py:64-65: a file whose name has no eligible suffix is passed over.
SkipFile ==
    /\ pc = "loop"
    /\ \E p \in WalkNext(todo, curdir) :
         /\ ~IsEligible(NameOf(p))
         /\ todo' = todo \ {p}
         /\ curdir' = DirOf(p)
    /\ UNCHANGED <<fsVars, clock, pc, fn, file_count, compressed_files,
                   written, outcome, ghostVars, staged, noSource>>

\* web_build.py:66-84: gzip one eligible file into data/<filename>.gz, then
\* compute the ratio; dst_size / src_size raises ZeroDivisionError for an
\* empty file, after the artifact was written.
CompressFile ==
    /\ pc = "loop"
    /\ \E p \in WalkNext(todo, curdir) :
         LET filename == NameOf(p)
             dst_filename == DstFilename(filename)
             src_size == getsize(www.files[p])
         IN  /\ IsEligible(filename)
             /\ out' = WriteFile(out, dst_filename,
                                 GzipMember(filename, www.files[p], clock))
             /\ written' = written \cup {<<dst_filename, p>>}
             /\ todo' = todo \ {p}
             /\ curdir' = DirOf(p)
             /\ IF src_size = 0
                THEN /\ pc' = "idle"
                     /\ outcome' = "ZeroDivisionError"
                     /\ file_count' = file_count
                     /\ compressed_files' = compressed_files
                ELSE /\ pc' = "loop"
                     /\ outcome' = outcome
                     /\ file_count' = file_count + 1
                     /\ compressed_files' = Append(compressed_files, dst_filename)
    /\ UNCHANGED <<webui, dist, www, clock, fn, ghostVars, staged, noSource>>

\* The write of the artifact fails part-way (disk full): an OSError that
\* nothing in the hook catches; the truncated artifact stays in data/.
CompressFileFails ==
    /\ pc = "loop"
    /\ \E p \in WalkNext(todo, curdir) :
         /\ IsEligible(NameOf(p))
         /\ out' = WriteFile(out, DstFilename(NameOf(p)),
                             TruncatedMember(NameOf(p), clock))
         /\ written' = written \cup {<<DstFilename(NameOf(p)), p>>}
         /\ todo' = todo \ {p}
         /\ curdir' = DirOf(p)
    /\ pc' = "idle"
    /\ outcome' = "OSError"
    /\ UNCHANGED <<webui, dist, www, clock, fn, file_count, compressed_files,
                   ghostVars, staged, noSource>>

\* web_build.py:87-99: the walk is over; print the summary and return.
Summary ==
    /\ pc = "loop"
    /\ todo = {}
    /\ \A i \in 1..Len(compressed_files) : compressed_files[i] \in DOMAIN out
    /\ pc' = "idle"
    /\ outcome' = "ok"
    /\ UNCHANGED <<fsVars, clock, fn, loopVars, ghostVars, staged, noSource>>

Next ==
    \/ Tick
    \/ PrepareBegin
    \/ CopyBegin
    \/ HookSucceeds
    \/ HookFails
    \/ HookCannotStart
    \/ PrepareStage
    \/ PrepareStageFails
    \/ CopyStage
    \/ CopyStageFails
    \/ PrepareStep2
    \/ SkipFile
    \/ CompressFile
    \/ CompressFileFails
    \/ Summary

Spec == Init /\ [][Next]_vars

(***************************************************************************)
(* Vocabulary of the properties.                                           *)
(***************************************************************************)
\* Eligibility as the specification words it: the name ends, case-sensitively,
\* with .html, .css, .js or .json.
EligibleBySpec(name) == \E sfx \in Suffixes : endswith(name, sfx)

EligibleStaged == { p \in DOMAIN www.files : EligibleBySpec(NameOf(p)) }

\* Exceptions that leave the hook function uncaught.
EscapedExceptions ==
    {"FileNotFoundError", "CopyError", "OSError", "ZeroDivisionError"}

\* Ends of a run of build_and_prepare_web_ui that entered the compression.
CompressionEnds == {"ok", "OSError", "ZeroDivisionError"}

StalePath == Path("", STALE_TXT)

(***************************************************************************)
(* C1: when `npm run build` exits non-zero the run stops there: nothing is *)
(* staged and nothing is compressed afterwards, so data/www and data/ are  *)
(* as they were when the run started. Holds for both hooks.                *)
(***************************************************************************)
C1_AbortOnBuildError ==
    outcome = "build_error" => (pc = "idle" /\ www = www0 /\ out = out0)

\* A failed build in a project where staging would have changed data/www.
C1_Witness ==
    /\ outcome = "build_error"
    /\ pc = "idle"
    /\ dist.exists
    /\ www # dist

(***************************************************************************)
(* C2: whenever the staging step was carried out (dist exists and the copy *)
(* went through), data/www holds exactly the files of dist with dist's     *)
(* contents, whatever data/www held before; a file of the old data/www     *)
(* that dist does not have is gone. Holds for both hooks.                  *)
(***************************************************************************)
C2_DestinationReplaced ==
    staged =>
        /\ www.exists
        /\ www.files = dist.files
        /\ \A p \in DOMAIN www0.files :
               p \notin DOMAIN dist.files => p \notin DOMAIN www.files

\* stale.txt was in data/www when the run started and is gone after staging.
C2_Witness ==
    /\ staged
    /\ StalePath \in DOMAIN www0.files
    /\ StalePath \notin DOMAIN www.files
    /\ www.files = dist.files

(***************************************************************************)
(* C3: after a run that went through to the summary, data/ holds exactly   *)
(* the artifacts of the eligible files of the current data/www, and no     *)
(* artifact of an earlier run whose source file is gone.                   *)
(***************************************************************************)
C3_NothingStale ==
    outcome = "ok" =>
        DOMAIN out = { DstFilename(NameOf(p)) : p \in EligibleStaged }

C5_NoDivisionError ==
    \A w \in written :
        getsize(www.files[w[2]]) = 0 =>
            /\ w[1] \in DOMAIN out
            /\ outcome # "ZeroDivisionError"

(***************************************************************************)
(* C6: after a run that went through to the summary, every file of         *)
(* data/www, at any depth, whose name ends with .html, .css, .js or .json  *)
(* has a complete artifact data/<filename>.gz holding the content of a     *)
(* staged file of that name, and the reported count is the number of       *)
(* eligible staged files.                                                  *)
(***************************************************************************)
C6_ArtifactForEveryEligible ==
    outcome = "ok" =>
        /\ \A p \in EligibleStaged :
               LET gz == DstFilename(NameOf(p))
               IN  /\ gz \in DOMAIN out
                   /\ out[gz].complete
                   /\ \E q \in EligibleStaged :
                          /\ NameOf(q) = NameOf(p)
                          /\ <<gz, q>> \in written
                          /\ out[gz].payload = www.files[q]
        /\ file_count = Cardinality(EligibleStaged)

\* The end-to-end scenario: {index.html, app.js, logo.png} gives a count of 2.
C6_Witness ==
    /\ outcome = "ok"
    /\ www = SiteTree
    /\ file_count = 2
    /\ DstFilename(INDEX_HTML) \in DOMAIN out
    /\ DstFilename(APP_JS) \in DOMAIN out

(***************************************************************************)
(* C7: the compression leaves data/www as staging left it and passes over  *)
(* the files that are not eligible (logo.png, app.JS): no artifact is      *)
(* written for them and they are not in the reported list.                 *)
(***************************************************************************)
C7_NonEligibleUntouched ==
    (fn = "prepare" /\ (pc = "loop" \/ outcome \in CompressionEnds)) =>
        /\ www = IF staged THEN MkTree(dist.files) ELSE www0
        /\ \A w \in written :
               /\ EligibleBySpec(NameOf(w[2]))
               /\ w[1] = DstFilename(NameOf(w[2]))
        /\ \A p \in (DOMAIN www.files) \ EligibleStaged :
               /\ \A w \in written : w[2] # p
               /\ \A i \in 1..Len(compressed_files) :
                      compressed_files[i] # DstFilename(NameOf(p))
        /\ \A i \in 1..Len(compressed_files) :
               \E p \in EligibleStaged :
                   compressed_files[i] = DstFilename(NameOf(p))

\* app.JS was staged, the run went through, and only index.html was compressed.
C7_Witness ==
    /\ outcome = "ok"
    /\ www = SmallTree
    /\ written = {<<DstFilename(INDEX_HTML), Path("", INDEX_HTML)>>}
    /\ compressed_files = <<DstFilename(INDEX_HTML)>>

(***************************************************************************)
(* C8: two runs in a row with the same source, the second at any later     *)
(* time, leave byte-identical artifacts in data/ and the same data/www.    *)
(***************************************************************************)
C8_Idempotent ==
    (outcome = "ok" /\ prev.valid /\ prev.dist = dist) =>
        (out = prev.out /\ www = prev.www)

(***************************************************************************)
(* C9: every failure of a stage is caught at the stage's boundary; no      *)
(* exception leaves the hook function.                                     *)
(***************************************************************************)
C9_NoExceptionEscapes == outcome \notin EscapedExceptions

(***************************************************************************)
(* C10: with the flattened placement two distinct eligible staged files    *)
(* never share an artifact path: the artifacts written in a run are as     *)
(* many as the reported count and none is overwritten in the same run.     *)
(***************************************************************************)
C10_OneArtifactPerFile ==
    /\ \A w1 \in written : \A w2 \in written :
           w1[2] # w2[2] => w1[1] # w2[1]
    /\ outcome = "ok" =>
           Cardinality({ w[1] : w \in written }) = file_count

=============================================================================
